---------------------------- MODULE Spec2Model ----------------------------
(***************************************************************************)
(* The Canadian cancer statistics dashboard of src/app.py: a table loaded  *)
(* once, three dropdowns, and two chart callbacks that filter the table,   *)
(* fit a least-squares line per selected sex and return a figure.          *)
(*                                                                         *)
(* A table is a sequence of rows (records with the CSV's columns).  A      *)
(* y-value is a rational <<numerator, denominator>> so that the fitted     *)
(* line is exact.  "A figure or nothing" is a sequence of length 0 or 1.   *)
(***************************************************************************)
EXTENDS Integers, Sequences, FiniteSets, TLC

(* ------------------------------ bounds -------------------------------- *)
\* longest table drawn with rows of every region, cancer type, sex and characteristic
MaxRows == 2
\* longest table drawn as one time series (one region, cancer type and sex)
MaxPoints == 3

(* ------------------------- program constants -------------------------- *)
YearCut == 2017
XAxisMax == 2017
Canada == "Canada"
AllSites == "Total, all primary sites of cancer [C00.0-C80.9]"
BothSexes == "Both sexes"
NewCases == "Number of new cancer cases"
AvgAge == "Average age at diagnosis"
\* the value of a cleared single-select dropdown (Python's None): equal to no cell
None == "None"

(* --------------------------- input domains ---------------------------- *)
GeoValues == {Canada, "Ontario"}
CancerTypeValues == {AllSites, "Lung"}
SexValues == {BothSexes, "Males"}
CharacteristicValues == {NewCases, AvgAge}
KeyYears == {YearCut}
SeriesYears == (YearCut - 2)..(YearCut + 1)
SeriesValues == {0, 1}

Row(g, t, s, c, yr, v) ==
  [GEO |-> g, CancerType |-> t, Sex |-> s, Characteristics |-> c,
   REF_DATE |-> yr, VALUE |-> v]

\* rows of either characteristic that differ from the layout's selection
\* (Canada, all sites, both sexes) in at most one of region, cancer type, sex
KeyRows ==
  {r \in [GEO : GeoValues, CancerType : CancerTypeValues, Sex : SexValues,
          Characteristics : CharacteristicValues, REF_DATE : KeyYears,
          VALUE : {1}] :
     Cardinality({c \in {"GEO", "CancerType", "Sex"} :
                    r[c] # Row(Canada, AllSites, BothSexes, "", 0, 0)[c]}) <= 1}

SeqsUpTo(S, n) == UNION {[1..k -> S] : k \in 0..n}

\* tables whose rows vary in every column the callbacks filter on
KeyTables == SeqsUpTo(KeyRows, MaxRows)

\* tables holding one time series of one characteristic
SeriesTables ==
  {[i \in 1..Len(p) |-> Row(Canada, AllSites, BothSexes, c, p[i][1], p[i][2])] :
     c \in CharacteristicValues,
     p \in SeqsUpTo(SeriesYears \X SeriesValues, MaxPoints)}

Tables == KeyTables \cup SeriesTables

VARIABLES
  data,                 \* the loaded table
  new_cancer,           \* its rows of characteristic NewCases
  age_at_diagnosis,     \* its rows of characteristic AvgAge
  regions, types, sex,  \* the dropdown option lists
  dropdown_region,      \* value of dropdown-region
  dropdown_cancer_type, \* value of dropdown-cancer-type
  dropdown_sex,         \* value of dropdown-sex (a list: multi=True)
  graph_1, graph_2,     \* the figure property of each dcc.Graph (<<>>: unset)
  ret_1, ret_2          \* outcome of the last call of each callback

loaded == <<data, new_cancer, age_at_diagnosis, regions, types, sex>>
controls == <<dropdown_region, dropdown_cancer_type, dropdown_sex>>
vars == <<data, new_cancer, age_at_diagnosis, regions, types, sex,
          dropdown_region, dropdown_cancer_type, dropdown_sex,
          graph_1, graph_2, ret_1, ret_2>>

(* ------------------------ pandas: the used part ----------------------- *)
\* faulty variant: the rows from the first match on, as if equal cells ended the table
WhereEqFromFirst(df, col, v) ==
  LET hits == {i \in 1..Len(df) : df[i][col] = v}
  IN IF hits = {} THEN <<>>
     ELSE SubSeq(df, CHOOSE i \in hits : \A j \in hits : i <= j, Len(df))

\* df[df[col] == v]: the rows whose cell equals v, in stored order
WhereEq(df, col, v) == SelectSeq(df, LAMBDA r : r[col] = v)

\* df[df[col] <= v]
WhereLe(df, col, v) == SelectSeq(df, LAMBDA r : r[col] <= v)

\* df[col]: one column as a sequence
Column(df, col) == [i \in 1..Len(df) |-> df[i][col]]

RECURSIVE UniqueFrom(_, _)
UniqueFrom(seen, s) ==
  IF s = <<>> THEN seen
  ELSE IF \E i \in 1..Len(seen) : seen[i] = Head(s)
       THEN UniqueFrom(seen, Tail(s))
       ELSE UniqueFrom(Append(seen, Head(s)), Tail(s))

\* Series.unique(): the distinct values in order of first occurrence
Unique(s) == UniqueFrom(<<>>, s)

(* ---------------------- statsmodels: the OLS fit ---------------------- *)
RECURSIVE Sum(_)
Sum(s) == IF s = <<>> THEN 0 ELSE Head(s) + Sum(Tail(s))

Products(s, t) == [i \in 1..Len(s) |-> s[i] * t[i]]

\* faulty variant: a fit that refuses fewer than two observations
OlsRaisesBelowTwo(df) == Len(df) < 2

\* smf.ols(...) on a frame: the design matrix of no observation has no
\* column maximum (statsmodels raises ValueError); any other fit is solved
\* by pseudo-inverse and succeeds
OlsRaises(df) == Len(df) = 0

\* faulty variant: the mean of VALUE at every year (a fit of "VALUE ~ 1")
OlsFitConstant(df) ==
  [b0 |-> Sum(Column(df, "VALUE")), b1 |-> 0, den |-> Len(df)]

\* The fitted line as [b0, b1, den]: prediction at x is (b0 + b1*x)/den.
\* With years that differ it is the unique least-squares line; when all
\* years coincide (also: one row) the pseudo-inverse solution predicts the
\* mean of VALUE at that year.
OlsFit(df) ==
  LET xs == Column(df, "REF_DATE")
      ys == Column(df, "VALUE")
      n == Len(df)
      Sx == Sum(xs)
      Sy == Sum(ys)
      Sxx == Sum(Products(xs, xs))
      Sxy == Sum(Products(xs, ys))
      D == n * Sxx - Sx * Sx
  IN IF D = 0
     THEN [b0 |-> Sy, b1 |-> 0, den |-> n]
     ELSE [b0 |-> Sy * Sxx - Sx * Sxy, b1 |-> n * Sxy - Sx * Sy, den |-> D]

\* model.predict(frame[["REF_DATE"]]): the fitted value at each row's year
Predict(model, df) ==
  [i \in 1..Len(df) |-> <<model.b0 + model.b1 * df[i].REF_DATE, model.den>>]

(* ------------------------- plotly: the figure ------------------------- *)
\* px.line(labels=..., title=...) with no data: a figure without data series
PxLine(title) ==
  [title |-> title, template |-> "plotly", xaxis_title |-> "", xaxis_max |-> 0,
   yaxis_title |-> "", series |-> <<>>]

\* fig.add_scatter(x=..., y=..., ...): one more series, after those present
AddScatter(fig, name, style, xs, ys) ==
  [fig EXCEPT !.series = Append(@, [name |-> name, style |-> style, x |-> xs, y |-> ys])]

\* the stored values as y-values
Exact(vs) == [i \in 1..Len(vs) |-> <<vs[i], 1>>]

Returned(fig) == [state |-> "returned", value |-> <<fig>>]
Raised == [state |-> "raised", value |-> <<>>]
NotCalled == [state |-> "idle", value |-> <<>>]

(* ----------------------------- callbacks ------------------------------ *)
\* faulty variant: the cancer type filter left out
FilteredSexData1AnyType(cancer_type, selected_region, chosenSex) ==
  LET filtered_data == WhereEq(new_cancer, "GEO", selected_region)
      filtered_sex_data == WhereEq(filtered_data, "Sex", chosenSex)
  IN WhereLe(filtered_sex_data, "REF_DATE", YearCut)

\* lines 67-70: the rows of new_cancer charted for one selected sex
FilteredSexData1(cancer_type, selected_region, chosenSex) ==
  LET filtered_data_geo == WhereEq(new_cancer, "GEO", selected_region)
      filtered_data == WhereEq(filtered_data_geo, "CancerType", cancer_type)
      filtered_sex_data == WhereEq(filtered_data, "Sex", chosenSex)
  IN WhereLe(filtered_sex_data, "REF_DATE", YearCut)

\* lines 72-73: the raw series of one sex
AddRaw1(fig, chosenSex, filtered_sex_data) ==
  AddScatter(fig, chosenSex, "lines",
             Column(filtered_sex_data, "REF_DATE"),
             Exact(Column(filtered_sex_data, "VALUE")))

\* lines 78-82: the trend series of one sex, once the fit has succeeded
AddTrend1(fig, filtered_sex_data) ==
  LET model == OlsFit(filtered_sex_data)
      predicted_y == Predict(model, filtered_sex_data)
  IN AddScatter(fig, "Regression Line", "dash",
                Column(filtered_sex_data, "REF_DATE"), predicted_y)

\* faulty variant: each trend series added before its raw series
RECURSIVE Loop1TrendFirst(_, _, _, _)
Loop1TrendFirst(fig, cancer_type, selected_region, sexes) ==
  IF sexes = <<>> THEN [exc |-> FALSE, fig |-> fig]
  ELSE LET chosenSex == Head(sexes)
           filtered_sex_data == FilteredSexData1(cancer_type, selected_region, chosenSex)
       IN IF OlsRaises(filtered_sex_data)
          THEN [exc |-> TRUE, fig |-> fig]
          ELSE Loop1TrendFirst(
                 AddRaw1(AddTrend1(fig, filtered_sex_data), chosenSex, filtered_sex_data),
                 cancer_type, selected_region, Tail(sexes))

\* lines 66-82: the loop over the selected sexes; exc: the fit raised
RECURSIVE Loop1(_, _, _, _)
Loop1(fig, cancer_type, selected_region, sexes) ==
  IF sexes = <<>> THEN [exc |-> FALSE, fig |-> fig]
  ELSE LET chosenSex == Head(sexes)
           filtered_sex_data == FilteredSexData1(cancer_type, selected_region, chosenSex)
           with_raw == AddRaw1(fig, chosenSex, filtered_sex_data)
       IN IF OlsRaises(filtered_sex_data)
          THEN [exc |-> TRUE, fig |-> with_raw]
          ELSE Loop1(AddTrend1(with_raw, filtered_sex_data),
                     cancer_type, selected_region, Tail(sexes))

\* lines 85-87: layout and axes of graph-1
Finish1(fig) ==
  [fig EXCEPT !.template = "seaborn", !.xaxis_title = "Year",
              !.xaxis_max = XAxisMax, !.yaxis_title = "Number of new cancer cases"]

update_graph_1(cancer_type, selected_region, sexes) ==
  LET fig == PxLine(<<"Cancer Cases in ", selected_region>>)
      done == Loop1(fig, cancer_type, selected_region, sexes)
  IN IF done.exc THEN Raised ELSE Returned(Finish1(done.fig))

\* faulty variant: the year cut left out
FilteredSexData2AnyYear(cancer_type, selected_region, chosenSex) ==
  LET filtered_data_geo == WhereEq(age_at_diagnosis, "GEO", selected_region)
      filtered_data == WhereEq(filtered_data_geo, "CancerType", cancer_type)
  IN WhereEq(filtered_data, "Sex", chosenSex)

\* lines 104-107: the rows of age_at_diagnosis charted for one selected sex
FilteredSexData2(cancer_type, selected_region, chosenSex) ==
  LET filtered_data_geo == WhereEq(age_at_diagnosis, "GEO", selected_region)
      filtered_data == WhereEq(filtered_data_geo, "CancerType", cancer_type)
      filtered_sex_data == WhereEq(filtered_data, "Sex", chosenSex)
  IN WhereLe(filtered_sex_data, "REF_DATE", YearCut)

\* lines 109-110
AddRaw2(fig, chosenSex, filtered_sex_data) ==
  AddScatter(fig, chosenSex, "lines",
             Column(filtered_sex_data, "REF_DATE"),
             Exact(Column(filtered_sex_data, "VALUE")))

\* lines 115-119
AddTrend2(fig, filtered_sex_data) ==
  LET model == OlsFit(filtered_sex_data)
      predicted_y == Predict(model, filtered_sex_data)
  IN AddScatter(fig, "Regression Line", "dash",
                Column(filtered_sex_data, "REF_DATE"), predicted_y)

\* lines 103-119
RECURSIVE Loop2(_, _, _, _)
Loop2(fig, cancer_type, selected_region, sexes) ==
  IF sexes = <<>> THEN [exc |-> FALSE, fig |-> fig]
  ELSE LET chosenSex == Head(sexes)
           filtered_sex_data == FilteredSexData2(cancer_type, selected_region, chosenSex)
           with_raw == AddRaw2(fig, chosenSex, filtered_sex_data)
       IN IF OlsRaises(filtered_sex_data)
          THEN [exc |-> TRUE, fig |-> with_raw]
          ELSE Loop2(AddTrend2(with_raw, filtered_sex_data),
                     cancer_type, selected_region, Tail(sexes))

\* faulty variant: the x axis left unclamped
Finish2NoRange(fig) ==
  [fig EXCEPT !.template = "seaborn", !.xaxis_title = "Year",
              !.yaxis_title = "Average age at diagnosis"]

\* lines 122-124: layout and axes of graph-2
Finish2(fig) ==
  [fig EXCEPT !.template = "seaborn", !.xaxis_title = "Year",
              !.xaxis_max = XAxisMax, !.yaxis_title = "Average age at diagnosis"]

update_graph_2(cancer_type, selected_region, sexes) ==
  LET fig == PxLine(<<"Average age at diagnosis in ", selected_region>>)
      done == Loop2(fig, cancer_type, selected_region, sexes)
  IN IF done.exc THEN Raised ELSE Returned(Finish2(done.fig))

(* ------------------------------- Dash --------------------------------- *)
\* a callback that returns sets its Output; one that raises leaves it as it was
Display(shown, ret) == IF ret.state = "returned" THEN ret.value ELSE shown

\* faulty variant: the region filter narrows the global subset itself
RunCallbacksInPlace(cancer_type, selected_region, sexes) ==
  /\ ret_1' = update_graph_1(cancer_type, selected_region, sexes)
  /\ ret_2' = update_graph_2(cancer_type, selected_region, sexes)
  /\ graph_1' = Display(graph_1, ret_1')
  /\ graph_2' = Display(graph_2, ret_2')
  /\ new_cancer' = WhereEq(new_cancer, "GEO", selected_region)
  /\ UNCHANGED <<data, age_at_diagnosis, regions, types, sex>>

\* Both callbacks take the three dropdown values as Inputs, in the order
\* cancer type, region, sex: a change of any runs both, each to the end.
RunCallbacks(cancer_type, selected_region, sexes) ==
  /\ ret_1' = update_graph_1(cancer_type, selected_region, sexes)
  /\ ret_2' = update_graph_2(cancer_type, selected_region, sexes)
  /\ graph_1' = Display(graph_1, ret_1')
  /\ graph_2' = Display(graph_2, ret_2')
  /\ UNCHANGED loaded

Elements(s) == {s[i] : i \in 1..Len(s)}

Remove(s, i) == [k \in 1..(Len(s) - 1) |-> IF k < i THEN s[k] ELSE s[k + 1]]

(* ------------------------------ actions ------------------------------- *)
\* lines 19-50: the table is read, split and summarised; the layout's values
Init ==
  /\ data \in Tables
  /\ new_cancer = WhereEq(data, "Characteristics", NewCases)
  /\ age_at_diagnosis = WhereEq(data, "Characteristics", AvgAge)
  /\ regions = Unique(Column(data, "GEO"))
  /\ types = Unique(Column(data, "CancerType"))
  /\ sex = Unique(Column(data, "Sex"))
  /\ dropdown_region = Canada
  /\ dropdown_cancer_type = AllSites
  /\ dropdown_sex = <<BothSexes>>
  /\ graph_1 = <<>>
  /\ graph_2 = <<>>
  /\ ret_1 = NotCalled
  /\ ret_2 = NotCalled

\* the page is opened: Dash calls every callback with the layout's values
PageLoad ==
  /\ ret_1.state = "idle"
  /\ RunCallbacks(dropdown_cancer_type, dropdown_region, dropdown_sex)
  /\ UNCHANGED controls

\* the user picks another region, or clears the dropdown
SelectRegion(v) ==
  /\ ret_1.state # "idle"
  /\ v \in Elements(regions) \cup {None}
  /\ v # dropdown_region
  /\ dropdown_region' = v
  /\ UNCHANGED <<dropdown_cancer_type, dropdown_sex>>
  /\ RunCallbacks(dropdown_cancer_type, v, dropdown_sex)

\* the user picks another cancer type, or clears the dropdown
SelectCancerType(v) ==
  /\ ret_1.state # "idle"
  /\ v \in Elements(types) \cup {None}
  /\ v # dropdown_cancer_type
  /\ dropdown_cancer_type' = v
  /\ UNCHANGED <<dropdown_region, dropdown_sex>>
  /\ RunCallbacks(v, dropdown_region, dropdown_sex)

\* the user adds a sex to the multi-select: it joins the list at its end
SelectSex(v) ==
  /\ ret_1.state # "idle"
  /\ v \in Elements(sex) \ Elements(dropdown_sex)
  /\ dropdown_sex' = Append(dropdown_sex, v)
  /\ UNCHANGED <<dropdown_region, dropdown_cancer_type>>
  /\ RunCallbacks(dropdown_cancer_type, dropdown_region, dropdown_sex')

\* the user removes the i-th selected sex
DeselectSex(i) ==
  /\ ret_1.state # "idle"
  /\ i \in 1..Len(dropdown_sex)
  /\ dropdown_sex' = Remove(dropdown_sex, i)
  /\ UNCHANGED <<dropdown_region, dropdown_cancer_type>>
  /\ RunCallbacks(dropdown_cancer_type, dropdown_region, dropdown_sex')

Next ==
  \/ PageLoad
  \/ \E v \in GeoValues \cup {None} : SelectRegion(v)
  \/ \E v \in CancerTypeValues \cup {None} : SelectCancerType(v)
  \/ \E v \in SexValues : SelectSex(v)
  \/ \E i \in 1..Cardinality(SexValues) : DeselectSex(i)

Spec == Init /\ [][Next]_vars


(* ===================== the claims, one by one ========================= *)
\* the two bindings: what each callback reads, returned and shows
Bindings ==
  {[ret |-> ret_1, subset |-> new_cancer, shown |-> graph_1],
   [ret |-> ret_2, subset |-> age_at_diagnosis, shown |-> graph_2]}

\* positions of the rows of a subset that the current selection and one sex match
MatchIdx(subset, s) ==
  {i \in 1..Len(subset) :
     /\ subset[i].GEO = dropdown_region
     /\ subset[i].CancerType = dropdown_cancer_type
     /\ subset[i].Sex = s
     /\ subset[i].REF_DATE <= YearCut}

\* the place of position i among the positions S, counted from 1
Rank(S, i) == Cardinality({j \in S : j <= i})

SeriesOf(b) == b.ret.value[1].series

(* C1: in every chart a callback returns, the raw series of the k-th       *)
(* selected sex holds exactly the rows of the callback's subset whose      *)
(* region, cancer type and sex equal the selection and whose year is at    *)
(* most 2017: none missing, none added, in the order the table stores them *)
RawSeriesAreTheMatchingRows ==
  \A b \in Bindings : b.ret.state = "returned" =>
    \A k \in 1..Len(dropdown_sex) :
      /\ 2 * k - 1 <= Len(SeriesOf(b))
      /\ LET raw == SeriesOf(b)[2 * k - 1]
             M == MatchIdx(b.subset, dropdown_sex[k])
         IN /\ Len(raw.x) = Cardinality(M)
            /\ Len(raw.y) = Cardinality(M)
            /\ \A i \in M : /\ raw.x[Rank(M, i)] = b.subset[i].REF_DATE
                            /\ raw.y[Rank(M, i)] = <<b.subset[i].VALUE, 1>>

\* a chart whose raw series keeps two rows in stored (here descending) order
\* and leaves a third row of the subset out
RawSeriesWitness ==
  /\ ret_1.state = "returned"
  /\ Len(new_cancer) = 3
  /\ Len(ret_1.value[1].series) = 2
  /\ Len(ret_1.value[1].series[1].x) = 2
  /\ ret_1.value[1].series[1].x[1] > ret_1.value[1].series[1].x[2]

(* C2: no point of any series, raw or trend, of a chart returned by either *)
(* callback or shown by either graph has a year greater than 2017          *)
NoPointAfter2017 ==
  \A figs \in {ret_1.value, ret_2.value, graph_1, graph_2} :
    \A f \in 1..Len(figs) :
      \A n \in 1..Len(figs[f].series) :
        \A i \in 1..Len(figs[f].series[n].x) : figs[f].series[n].x[i] <= 2017

\* a chart with points, returned while the subset holds a row of the same
\* region, cancer type and sex dated after 2017
NoPointAfter2017Witness ==
  /\ ret_2.state = "returned"
  /\ Len(dropdown_sex) = 1
  /\ Len(ret_2.value[1].series[1].x) >= 1
  /\ \E i \in 1..Len(age_at_diagnosis) :
       /\ age_at_diagnosis[i].REF_DATE > 2017
       /\ age_at_diagnosis[i].GEO = dropdown_region
       /\ age_at_diagnosis[i].CancerType = dropdown_cancer_type
       /\ age_at_diagnosis[i].Sex = dropdown_sex[1]

(* C3: a returned chart for n selected sexes holds exactly 2n series: for  *)
(* the k-th selected sex its raw series (named after the sex) at place     *)
(* 2k-1, immediately followed at place 2k by its trend series (the dashed  *)
(* "Regression Line" over the same years), pairs in selection order        *)
SeriesPairsInSelectionOrder ==
  \A b \in Bindings : b.ret.state = "returned" =>
    /\ Len(SeriesOf(b)) = 2 * Len(dropdown_sex)
    /\ \A k \in 1..Len(dropdown_sex) :
         LET raw == SeriesOf(b)[2 * k - 1]
             trend == SeriesOf(b)[2 * k]
         IN /\ raw.name = dropdown_sex[k]
            /\ raw.style = "lines"
            /\ Len(raw.x) = Cardinality(MatchIdx(b.subset, dropdown_sex[k]))
            /\ trend.name = "Regression Line"
            /\ trend.style = "dash"
            /\ trend.x = raw.x

\* a chart returned for two selected sexes
SeriesPairsWitness ==
  /\ ret_1.state = "returned"
  /\ Len(dropdown_sex) = 2
  /\ Len(ret_1.value[1].series) = 4

(* C4: for every selected sex with at least 2 filtered rows, the trend     *)
(* series has the x-values of its raw series, its y-values lie on one      *)
(* straight line in the year, and that line is a least-squares line of the *)
(* raw points: the residuals sum to zero and are orthogonal to the years   *)
(* (the normal equations of value on year with an intercept)               *)
TrendIsLeastSquaresLine ==
  \A b \in Bindings : b.ret.state = "returned" =>
    \A k \in 1..Len(dropdown_sex) :
      LET raw == SeriesOf(b)[2 * k - 1]
          trend == SeriesOf(b)[2 * k]
          P == 1..Len(raw.x)
          d == trend.y[1][2]
          res(i) == raw.y[i][1] * d - trend.y[i][1]
      IN Len(raw.x) >= 2 =>
           /\ trend.x = raw.x
           /\ Len(trend.y) = Len(raw.x)
           /\ d > 0
           /\ \A i \in P : trend.y[i][2] = d /\ raw.y[i][2] = 1
           /\ \A i, j \in P : trend.x[i] = trend.x[j] => trend.y[i] = trend.y[j]
           /\ \A i, j, m \in P :
                (trend.y[i][1] - trend.y[j][1]) * (trend.x[i] - trend.x[m])
                  = (trend.y[i][1] - trend.y[m][1]) * (trend.x[i] - trend.x[j])
           /\ Sum([i \in P |-> res(i)]) = 0
           /\ Sum([i \in P |-> trend.x[i] * res(i)]) = 0

\* a trend fitted to three points of three different years that do not lie
\* on a line: the trend passes beside the first point
TrendWitness ==
  /\ ret_1.state = "returned"
  /\ Len(dropdown_sex) = 1
  /\ LET raw == ret_1.value[1].series[1]
         trend == ret_1.value[1].series[2]
     IN /\ Len(raw.x) = 3
        /\ Cardinality({raw.x[i] : i \in 1..3}) = 3
        /\ raw.y[1][1] * trend.y[1][2] # trend.y[1][1]

\* the values a column takes in a table
Cells(df, col) == {df[i][col] : i \in 1..Len(df)}

(* C5 (as claimed): when the selected region, the selected cancer type or  *)
(* every selected sex does not occur in a (non-empty) subset, the callback *)
(* still returns a chart, and the chart has no data point                  *)
ZeroRowsGiveAnEmptyChart ==
  \A b \in Bindings :
    (/\ b.ret.state # "idle"
     /\ b.subset # <<>>
     /\ \/ dropdown_region \notin Cells(b.subset, "GEO")
        \/ dropdown_cancer_type \notin Cells(b.subset, "CancerType")
        \/ Elements(dropdown_sex) \cap Cells(b.subset, "Sex") = {})
    => /\ b.ret.state = "returned"
       /\ \A n \in 1..Len(SeriesOf(b)) : SeriesOf(b)[n].x = <<>>

(* C6 (as claimed): between user events each graph shows exactly what its  *)
(* callback computes for the current selection, never a chart of an        *)
(* earlier selection                                                       *)
GraphsShowTheCurrentSelection ==
  ret_1.state # "idle" =>
    /\ graph_1 = update_graph_1(dropdown_cancer_type, dropdown_region, dropdown_sex).value
    /\ graph_2 = update_graph_2(dropdown_cancer_type, dropdown_region, dropdown_sex).value

\* what is loaded is what the load derives from the table
LoadedAsDerived ==
  /\ new_cancer = SelectSeq(data, LAMBDA r : r.Characteristics = NewCases)
  /\ age_at_diagnosis = SelectSeq(data, LAMBDA r : r.Characteristics = AvgAge)
  /\ \A col \in {"GEO", "CancerType", "Sex"} :
       LET opts == CASE col = "GEO" -> regions
                     [] col = "CancerType" -> types
                     [] OTHER -> sex
       IN /\ Elements(opts) = {data[i][col] : i \in 1..Len(data)}
          /\ Cardinality(Elements(opts)) = Len(opts)

(* C7: no step changes the loaded table, its two characteristic subsets or *)
(* the three option lists, which stay what the load derived from the table:*)
(* a callback's result depends on the selection alone, not on earlier calls*)
NoSideEffects ==
  /\ [][loaded' = loaded]_vars
  /\ []LoadedAsDerived

\* both callbacks have run more than once over a non-empty table: graph-2
\* still shows an earlier chart, graph-1 a chart with points
NoSideEffectsWitness ==
  /\ ret_2.state = "raised"
  /\ graph_2 # <<>>
  /\ ret_1.state = "returned"
  /\ Len(dropdown_sex) >= 1
  /\ Len(new_cancer) >= 1

\* the four filters of the current selection and one sex, by number
Filter(n, df, s) ==
  CASE n = 1 -> WhereEq(df, "GEO", dropdown_region)
    [] n = 2 -> WhereEq(df, "CancerType", dropdown_cancer_type)
    [] n = 3 -> WhereEq(df, "Sex", s)
    [] OTHER -> WhereLe(df, "REF_DATE", YearCut)

\* the 24 orders of the four filters
Orders ==
  {p \in {<<a, b, c, d>> : a \in 1..4, b \in 1..4, c \in 1..4, d \in 1..4} :
     Cardinality({p[1], p[2], p[3], p[4]}) = 4}

InOrder(p, df, s) == Filter(p[4], Filter(p[3], Filter(p[2], Filter(p[1], df, s), s), s), s)

(* C8: for the current selection and each selected sex, the region, cancer *)
(* type, sex and year filters applied in any of their 24 orders yield the  *)
(* rows, in stored order, that the callbacks obtain in the order region,   *)
(* cancer type, sex, year                                                  *)
FiltersCommute ==
  \A k \in 1..Len(dropdown_sex) :
    LET s == dropdown_sex[k]
        rows_1 == FilteredSexData1(dropdown_cancer_type, dropdown_region, s)
        rows_2 == FilteredSexData2(dropdown_cancer_type, dropdown_region, s)
    IN \A p \in Orders : /\ InOrder(p, new_cancer, s) = rows_1
                         /\ InOrder(p, age_at_diagnosis, s) = rows_2

\* a selection whose filters keep some rows of a subset and drop others,
\* charted by the callback
FiltersCommuteWitness ==
  /\ ret_1.state = "returned"
  /\ Len(dropdown_sex) = 1
  /\ Len(new_cancer) >= 2
  /\ LET kept == FilteredSexData1(dropdown_cancer_type, dropdown_region, dropdown_sex[1])
     IN /\ kept # <<>>
        /\ Len(kept) < Len(new_cancer)
        /\ ret_1.value[1].series[1].x = Column(kept, "REF_DATE")

(* C9 (as claimed): whenever fewer than 2 rows remain for some selected    *)
(* sex, the callback raises and returns no chart                           *)
FewerThanTwoRowsRaise ==
  \A b \in Bindings :
    (/\ b.ret.state # "idle"
     /\ \E k \in 1..Len(dropdown_sex) :
          Cardinality(MatchIdx(b.subset, dropdown_sex[k])) < 2)
    => b.ret.state = "raised"

(* C9 (amended): a callback raises exactly when no row remains for some    *)
(* selected sex; it then returns no chart (the series of earlier sexes are *)
(* lost) and its graph keeps what it showed.  With exactly one row left    *)
(* the fit succeeds and the trend is that one point.                       *)
NoRowRaisesOneRowFits ==
  \A b \in Bindings : b.ret.state # "idle" =>
    /\ b.ret.state = "raised"
         <=> \E k \in 1..Len(dropdown_sex) : MatchIdx(b.subset, dropdown_sex[k]) = {}
    /\ b.ret.state = "raised" => b.ret.value = <<>>
    /\ b.ret.state = "returned" =>
         /\ b.shown = b.ret.value
         /\ \A k \in 1..Len(dropdown_sex) :
              Cardinality(MatchIdx(b.subset, dropdown_sex[k])) = 1 =>
                LET raw == SeriesOf(b)[2 * k - 1]
                    trend == SeriesOf(b)[2 * k]
                IN /\ trend.x = raw.x
                   /\ Len(trend.y) = 1
                   /\ trend.y[1][1] = raw.y[1][1] * trend.y[1][2]

\* two sexes selected, rows for the first and none for the second: the
\* callback raised after adding the first sex's series
NoRowRaisesWitness ==
  /\ ret_1.state = "raised"
  /\ Len(dropdown_sex) = 2
  /\ MatchIdx(new_cancer, dropdown_sex[1]) # {}
  /\ MatchIdx(new_cancer, dropdown_sex[2]) = {}

\* a table with its characteristic column blanked
Uncharacterised(df) == [i \in 1..Len(df) |-> [df[i] EXCEPT !.Characteristics = ""]]

(* C10 (as claimed): given the same rows and the same selection, the two   *)
(* callbacks give the same outcome, and charts equal in every component    *)
(* but the y-axis label                                                    *)
CallbacksDifferOnlyInYLabel ==
  (ret_1.state # "idle"
     /\ Uncharacterised(new_cancer) = Uncharacterised(age_at_diagnosis)) =>
    /\ ret_1.state = ret_2.state
    /\ ret_1.state = "returned" =>
         [ret_1.value[1] EXCEPT !.yaxis_title = ""]
           = [ret_2.value[1] EXCEPT !.yaxis_title = ""]

(* C10 (amended): given the same rows and the same selection, the two      *)
(* callbacks give the same outcome, and charts equal in every component    *)
(* but the y-axis label and the wording of the title before the region     *)
CallbacksDifferInYLabelAndTitle ==
  (ret_1.state # "idle"
     /\ Uncharacterised(new_cancer) = Uncharacterised(age_at_diagnosis)) =>
    /\ ret_1.state = ret_2.state
    /\ ret_1.state = "returned" =>
         LET f1 == ret_1.value[1]
             f2 == ret_2.value[1]
         IN /\ [f1 EXCEPT !.yaxis_title = "", !.title = <<>>]
                 = [f2 EXCEPT !.yaxis_title = "", !.title = <<>>]
            /\ f1.title[2] = f2.title[2]
            /\ f1.title[1] # f2.title[1]
            /\ f1.yaxis_title # f2.yaxis_title

\* both callbacks returned charts with points from equal rows
CallbacksSideBySideWitness ==
  /\ ret_1.state = "returned"
  /\ ret_2.state = "returned"
  /\ new_cancer # <<>>
  /\ Uncharacterised(new_cancer) = Uncharacterised(age_at_diagnosis)
  /\ Len(ret_1.value[1].series) = 2
  /\ ret_1.value[1].series[1].x # <<>>

=============================================================================
